---- MODULE Spec2Model ----
\* The tarr rule engine: the instruction-graph virtual machine of
\* tarr/compiler.py with its per-instruction statistics
\* (InstructionStatistic, Program.run_instruction, the rule / branch /
\* branch_rule instructions) and the aggregation of statistics by merge.
EXTENDS Integers, Sequences, FiniteSets, TLC

\* ------------------------------------------------------------------ bounds

\* data items run in total (over both Programs)
MaxItems == 2
\* InstructionStatistic.merge calls
MaxMerges == 1
\* longest wall clock difference (after - before) of one body, in ticks
MaxElapsed == 1
\* largest counter of a statistic drawn as an input of the merge laws
MaxCount == 2
\* longest program description given to the compiler, in primitives
MaxDesc == 5
\* largest absolute value of an int payload given to a run
MaxPayload == 5
\* from_string calls on one DagConfigReader
MaxCalls == 2
\* node definitions in one DAG config
MaxNodedefs == 2
\* data items of one batch
MaxBatch == 3
\* the batches of a job, and the commands run on it
MaxBatches == 2
MaxCommands == 2

\* ---------------------------------------------------------- python objects

\* A Python object is its type and what tells it from the other objects of
\* that type; two records are equal exactly when they are the same object.
PyNone == [t |-> "NoneType", v |-> 0]
PyFalse == [t |-> "bool", v |-> 0]
PyTrue == [t |-> "bool", v |-> 1]
PyInt(n) == [t |-> "int", v |-> n]
\* the one mutable payload: a list, empty or not as list_len tells
PyList == [t |-> "list", v |-> 0]
\* the no-progress sentinel, an object() of its own
HAVE_NOT_DONE_IT == [t |-> "object", v |-> 0]

\* payloads of the data items given to Program.run
Payloads == {PyList}
\* what the body of a rule or of a branch_rule can return
Outputs == {PyNone, PyFalse, PyInt(0), PyInt(1), PyList, HAVE_NOT_DONE_IT}
\* what the body of a branch can return: a bool, or an object taken as one
BranchOutputs == {PyTrue, PyFalse, PyList}
BodyOutputs(kind) == IF kind = "branch" THEN BranchOutputs ELSE Outputs

\* bool(obj) as `if obj:` takes it; len is the current length of PyList
Truthy(obj, len) ==
    CASE obj.t = "NoneType" -> FALSE
      [] obj.t = "bool" -> obj.v # 0
      [] obj.t = "int" -> obj.v # 0
      [] obj.t = "list" -> len > 0
      [] OTHER -> TRUE

\* -------------------------------------------------------------- the program

NoIndex == -1

Rule(i, next) ==
    [index |-> i, kind |-> "rule", next_instruction |-> next,
     instruction_on_yes |-> NoIndex, instruction_on_no |-> NoIndex,
     return_value |-> "None"]
Branch(i, kind, yes, no) ==
    [index |-> i, kind |-> kind, next_instruction |-> NoIndex,
     instruction_on_yes |-> yes, instruction_on_no |-> no,
     return_value |-> "None"]
Return(i, value) ==
    [index |-> i, kind |-> "return", next_instruction |-> NoIndex,
     instruction_on_yes |-> NoIndex, instruction_on_no |-> NoIndex,
     return_value |-> value]

\* The compiled form of  [IF (cond), a, ELSE, b, ENDIF, RETURN]  with a and b
\* rules and cond of the given kind: a branch, or a branch_rule.
Program(cond_kind) ==
    (0 :> Branch(0, cond_kind, 1, 2)) @@
    (1 :> Rule(1, 3)) @@
    (2 :> Rule(2, 3)) @@
    (3 :> Return(3, "None"))

\* The compiled form of  [RETURN_TRUE]
ProgramReturnTrue == (0 :> Return(0, "True"))

\* The compiled form of  [IF (cond), RETURN_FALSE, ENDIF, RETURN_TRUE]  with
\* cond a branch: each return answers the opposite of the flag it is reached
\* with.
ProgramGuard ==
    (0 :> Branch(0, "branch", 1, 2)) @@
    (1 :> Return(1, "False")) @@
    (2 :> Return(2, "True"))

Programs == {Program("branch"), Program("branch_rule"), ProgramReturnTrue,
             ProgramGuard}

\* ------------------------------------------------------ InstructionStatistic

InstructionStatistic(index) ==
    [index |-> index, item_count |-> 0, success_count |-> 0,
     failure_count |-> 0, run_time |-> 0]

had_exception_or_equal(self) ==
    self.item_count >= self.success_count + self.failure_count

had_exception(self) ==
    self.item_count > self.success_count + self.failure_count

\* self.merge(from_stat): the assert, then the four additions on self
merge_assert_off(self, from_stat) == TRUE

merge_assert(self, from_stat) == self.index = from_stat.index

merge_failure_from_success(self, from_stat) ==
    [self EXCEPT !.item_count = @ + from_stat.item_count,
                 !.success_count = @ + from_stat.success_count,
                 !.failure_count = @ + from_stat.success_count,
                 !.run_time = @ + from_stat.run_time]

merge_item_count_assigned(self, from_stat) ==
    [self EXCEPT !.item_count = from_stat.item_count,
                 !.success_count = @ + from_stat.success_count,
                 !.failure_count = @ + from_stat.failure_count,
                 !.run_time = @ + from_stat.run_time]

merge(self, from_stat) ==
    [self EXCEPT !.item_count = @ + from_stat.item_count,
                 !.success_count = @ + from_stat.success_count,
                 !.failure_count = @ + from_stat.failure_count,
                 !.run_time = @ + from_stat.run_time]

\* ------------------------------------------------------------ instructions

\* Instruction.run results: (next instruction, flag, data.payload)
TarrRuleInstruction_run_true(self, flag, payload, output) ==
    [next |-> self.next_instruction, flag |-> TRUE, payload |-> output]

TarrRuleInstruction_run(self, flag, payload, output) ==
    [next |-> self.next_instruction, flag |-> flag, payload |-> output]

TarrBranchInstruction_run_swapped(self, flag, payload, output, len) ==
    IF Truthy(output, len)
    THEN [next |-> self.instruction_on_no, flag |-> TRUE, payload |-> payload]
    ELSE [next |-> self.instruction_on_yes, flag |-> FALSE, payload |-> payload]

TarrBranchInstruction_run(self, flag, payload, output, len) ==
    IF Truthy(output, len)
    THEN [next |-> self.instruction_on_yes, flag |-> TRUE, payload |-> payload]
    ELSE [next |-> self.instruction_on_no, flag |-> FALSE, payload |-> payload]

done_it_by_value(output) ==
    output \notin {HAVE_NOT_DONE_IT, PyNone, PyFalse, PyInt(0)}

\* done_it = output is not HAVE_NOT_DONE_IT
done_it(output) == output # HAVE_NOT_DONE_IT

TarrBranchRuleInstruction_run_assign_first(self, flag, payload, output) ==
    IF done_it(output)
    THEN [next |-> self.instruction_on_yes, flag |-> TRUE, payload |-> output]
    ELSE [next |-> self.instruction_on_no, flag |-> FALSE, payload |-> output]

TarrBranchRuleInstruction_run(self, flag, payload, output) ==
    IF done_it(output)
    THEN [next |-> self.instruction_on_yes, flag |-> TRUE, payload |-> output]
    ELSE [next |-> self.instruction_on_no, flag |-> FALSE, payload |-> payload]

\* instruction.run(flag, data) by the class of the instruction; output is
\* what self.func(data.payload) returned, len the length of PyList after it
instruction_run(self, flag, payload, output, len) ==
    CASE self.kind = "rule" -> TarrRuleInstruction_run(self, flag, payload, output)
      [] self.kind = "branch" ->
            TarrBranchInstruction_run(self, flag, payload, output, len)
      [] self.kind = "branch_rule" ->
            TarrBranchRuleInstruction_run(self, flag, payload, output)

\* ------------------------------------------------------------------- state

\* W is the Program of a worker, P the one the statistics are merged into
Progs == {"P", "W"}

VARIABLES
    instructions, \* Program.instructions, the same for both Programs
    statistics,  \* Program.statistics of each Program
    tally,       \* per statistic, what the bodies did: [ok, no, raised]
    pc,          \* "idle", "running" (inside Program.run), "raised"
    cur,         \* the Program that runs the current data item
    ip,          \* index of the instruction to execute next
    flag,        \* the flag carried between instructions
    payload,     \* data.payload
    list_len,    \* the content of the mutable payload PyList: 0 empty, 1 not
    items,       \* data items given to run so far
    merges,      \* merge calls so far
    last,        \* the outcome of the last call, as its caller sees it
    law,         \* statistics merged in two orders (MergeSpec), else NoLaw
    cc,          \* the compiler at work on a program description (CompileSpec)
    trace,       \* the run of a compiled program, as observed (BranchSpec)
    vis,         \* a program listed by its visitors (VisitSpec)
    dag,         \* DagConfigReader at work on a configuration (DagSpec)
    batch,       \* Application.process_batch at work (BatchSpec)
    job          \* the batches of a job being processed (JobSpec)

vmvars == <<instructions, statistics, tally, pc, cur, ip, flag, payload,
            list_len, items, merges, last>>
subsys == <<cc, trace, vis, dag, batch, job>>
vars == <<vmvars, law, subsys>>

NoLaw == [step |-> 0]
NoCc == [status |-> "none"]
NoTrace == [step |-> 0]
NoVis == [step |-> 0]
NoDag == [status |-> "none"]
NoBatch == [pc |-> "none"]
NoJob == [pc |-> "none"]

\* the parts of the system a specification does not exercise stay as built
SubsysInit ==
    /\ cc = NoCc
    /\ trace = NoTrace
    /\ vis = NoVis
    /\ dag = NoDag
    /\ batch = NoBatch
    /\ job = NoJob

\* stat.item_count += 1
count_item_late(stat) == stat

count_item(stat) == [stat EXCEPT !.item_count = @ + 1]

\* run_instruction left by the exception of instruction.run: the statements
\* before the call have run, those after it have not
run_instruction_raise_counted(stat) ==
    [count_item(stat) EXCEPT !.failure_count = @ + 1]

run_instruction_raise(stat) == count_item(stat)

\* the part of run_instruction after instruction.run returned
count_result_swapped(stat, new_flag, elapsed) ==
    [(IF new_flag
      THEN [stat EXCEPT !.failure_count = @ + 1]
      ELSE [stat EXCEPT !.success_count = @ + 1])
     EXCEPT !.run_time = @ + elapsed]

count_result(stat, new_flag, elapsed) ==
    [(IF new_flag
      THEN [stat EXCEPT !.success_count = @ + 1]
      ELSE [stat EXCEPT !.failure_count = @ + 1])
     EXCEPT !.run_time = @ + elapsed]

\* whether the body of an instruction of this kind made it: a branch returned
\* truthy, a branch_rule something else than the sentinel, a rule returned
BodyOk(kind, output, len) ==
    CASE kind = "branch" -> Truthy(output, len)
      [] kind = "branch_rule" -> output # HAVE_NOT_DONE_IT
      [] OTHER -> TRUE

NoTally == [ok |-> 0, no |-> 0, raised |-> 0]

Idle == /\ pc' = "idle"
        /\ cur' = "P"
        /\ ip' = 0
        /\ flag' = TRUE
        /\ payload' = PyNone
        /\ list_len' = 0

\* Program.__init__: one InstructionStatistic per instruction, in order
Program_statistics_short(instrs) ==
    [i \in DOMAIN instrs \ {0} |-> InstructionStatistic(i)]

Program_statistics(instrs) ==
    [i \in DOMAIN instrs |-> InstructionStatistic(i)]

\* no run under way, nothing run or merged so far
VmAtRest ==
    /\ tally = [p \in Progs |-> [i \in DOMAIN instructions |-> NoTally]]
    /\ pc = "idle"
    /\ cur = "P"
    /\ ip = 0
    /\ flag = TRUE
    /\ payload = PyNone
    /\ list_len = 0
    /\ items = 0
    /\ merges = 0
    /\ last = [op |-> "init"]

VmInit ==
    /\ instructions \in Programs
    /\ statistics = [p \in Progs |-> Program_statistics(instructions)]
    /\ VmAtRest

Init == VmInit /\ law = NoLaw /\ SubsysInit

\* Program.run(data) is entered: flag True, the first instruction
RunStart ==
    /\ pc = "idle"
    /\ items < MaxItems
    /\ \E p \in Progs, d \in Payloads :
        /\ cur' = p
        /\ payload' = d
    /\ list_len' = 0
    /\ pc' = "running"
    /\ ip' = 0
    /\ flag' = TRUE
    /\ items' = items + 1
    /\ last' = [op |-> "start"]
    /\ UNCHANGED <<law, subsys, instructions, statistics, tally, merges>>

\* what a body can do to the list it was given: nothing, or append to it in
\* place (an empty list becomes a non-empty one)
BodyLens(p, len) == IF p = PyList THEN {len, 1} ELSE {len}

\* after - before: the clock did not advance, or the body took its longest
Elapsed == {0, MaxElapsed}

\* Program.run_instruction, its body returning output
RunInstruction ==
    /\ pc = "running"
    /\ instructions[ip].kind # "return"
    /\ \E output \in BodyOutputs(instructions[ip].kind),
          len \in BodyLens(payload, list_len),
          elapsed \in Elapsed :
        LET ins == instructions[ip]
            res == instruction_run(ins, flag, payload, output, len)
        IN  /\ statistics' = [statistics EXCEPT ![cur][ip] =
                    count_result(count_item(@), res.flag, elapsed)]
            /\ tally' = [tally EXCEPT ![cur][ip] =
                    IF BodyOk(ins.kind, output, len)
                    THEN [@ EXCEPT !.ok = @ + 1]
                    ELSE [@ EXCEPT !.no = @ + 1]]
            /\ ip' = res.next
            /\ flag' = res.flag
            /\ payload' = res.payload
            /\ list_len' = IF res.payload = PyList THEN len ELSE 0
            /\ last' = [op |-> "run_instruction", index |-> ip,
                        raised |-> FALSE, output |-> output]
    /\ UNCHANGED <<law, subsys, instructions, pc, cur, items, merges>>

\* Program.run_instruction, its body raising
RunInstructionRaise ==
    /\ pc = "running"
    /\ instructions[ip].kind # "return"
    /\ \E len \in BodyLens(payload, list_len) :
        /\ statistics' = [statistics EXCEPT ![cur][ip] = run_instruction_raise(@)]
        /\ list_len' = len
    /\ tally' = [tally EXCEPT ![cur][ip].raised = @ + 1]
    /\ pc' = "raised"
    /\ last' = [op |-> "run_instruction", index |-> ip, raised |-> TRUE]
    /\ UNCHANGED <<law, subsys, instructions, cur, ip, flag, payload, items, merges>>

\* the run reaches a return instruction and ends: Program.run returns the
\* data item and Application.process_data_item returns it in turn
\* what a run answers at a return instruction: its return_value if it has
\* one, else the flag as it is
return_flag(ins, current) ==
    CASE ins.return_value = "None" -> current
      [] ins.return_value = "True" -> TRUE
      [] ins.return_value = "False" -> FALSE

\* Program.run got to a return instruction, and gives it to run_instruction
\* as it does the other instructions
RunReturnCounted ==
    /\ pc = "running"
    /\ instructions[ip].kind = "return"
    /\ Idle
    /\ \E elapsed \in Elapsed :
        statistics' = [statistics EXCEPT ![cur][ip] =
            count_result(count_item(@),
                         return_flag(instructions[ip], flag), elapsed)]
    /\ last' = [op |-> "run", raised |-> FALSE, index |-> ip,
                flag |-> return_flag(instructions[ip], flag)]
    /\ UNCHANGED <<law, subsys, instructions, tally, items, merges>>

\* Program.run got to a return instruction: the run is over, no statistic is
\* touched
RunReturn ==
    /\ pc = "running"
    /\ instructions[ip].kind = "return"
    /\ Idle
    /\ last' = [op |-> "run", raised |-> FALSE, index |-> ip,
                flag |-> return_flag(instructions[ip], flag)]
    /\ UNCHANGED <<law, subsys, instructions, statistics, tally, items, merges>>

\* Application.process_data_item: the except clause gives the item back
ProcessDataItemExcept ==
    /\ pc = "raised"
    /\ Idle
    /\ last' = [op |-> "run", raised |-> TRUE]
    /\ UNCHANGED <<law, subsys, instructions, statistics, tally, items, merges>>

\* statistics["P"][i].merge(statistics["W"][j])
Merge ==
    /\ pc = "idle"
    /\ merges < MaxMerges
    /\ \E i, j \in DOMAIN instructions :
        /\ merge_assert(statistics["P"][i], statistics["W"][j])
        /\ statistics' = [statistics EXCEPT !["P"][i] =
                              merge(@, statistics["W"][j])]
        /\ tally' = [tally EXCEPT !["P"][i] =
                        [ok |-> @.ok + tally["W"][j].ok,
                         no |-> @.no + tally["W"][j].no,
                         raised |-> @.raised + tally["W"][j].raised]]
        /\ last' = [op |-> "merge", raised |-> FALSE, i |-> i, j |-> j]
    /\ merges' = merges + 1
    /\ UNCHANGED <<law, subsys, instructions, pc, cur, ip, flag, payload, list_len, items>>

\* the same call failing its assert
MergeAssertionError ==
    /\ pc = "idle"
    /\ merges < MaxMerges
    /\ \E i, j \in DOMAIN instructions :
        /\ ~merge_assert(statistics["P"][i], statistics["W"][j])
        /\ last' = [op |-> "merge", raised |-> TRUE, i |-> i, j |-> j]
    /\ merges' = merges + 1
    /\ UNCHANGED <<law, subsys, instructions, statistics, tally, pc, cur, ip, flag, payload,
                   list_len, items>>

Next ==
    \/ RunStart
    \/ RunInstruction
    \/ RunInstructionRaise
    \/ RunReturn
    \/ ProcessDataItemExcept
    \/ Merge
    \/ MergeAssertionError

Spec == Init /\ [][Next]_vars

\* ------------------------------------------------- the merge laws (MergeSpec)

\* Statistics a Program can hold for instruction i: no more results than
\* items, no run time without a result
StatInputs(i) ==
    {x \in [index : {i}, item_count : 0..MaxCount, success_count : 0..MaxCount,
            failure_count : 0..MaxCount, run_time : {0, MaxElapsed}] :
        /\ x.success_count + x.failure_count <= x.item_count
        /\ (x.success_count + x.failure_count = 0 => x.run_time = 0)}

\* Three statistics s, t, u of one instruction, held three times over: left
\* and right are <<s, t, u>> to be merged as (s.t).u and as s.(t.u), swap is
\* <<s, t>> to be merged as t.s
MergeInit ==
    /\ VmInit
    /\ SubsysInit
    /\ instructions = Program("branch")
    /\ \E i \in {0, 1} : \E s, t, u \in StatInputs(i) :
        law = [step |-> 0, in |-> <<s, t, u>>, left |-> <<s, t, u>>,
               right |-> <<s, t, u>>, swap |-> <<s, t>>]

\* left: s.merge(t)
LawLeftST ==
    /\ law.step = 0
    /\ merge_assert(law.left[1], law.left[2])
    /\ law' = [law EXCEPT !.step = 1,
                          !.left[1] = merge(law.left[1], law.left[2])]
    /\ UNCHANGED <<vmvars, subsys>>

\* swap: t.merge(s)
LawSwapTS ==
    /\ law.step = 1
    /\ merge_assert(law.swap[2], law.swap[1])
    /\ law' = [law EXCEPT !.step = 2,
                          !.swap[2] = merge(law.swap[2], law.swap[1])]
    /\ UNCHANGED <<vmvars, subsys>>

\* left: s.merge(u), s being s.t by now
LawLeftSU ==
    /\ law.step = 2
    /\ merge_assert(law.left[1], law.left[3])
    /\ law' = [law EXCEPT !.step = 3,
                          !.left[1] = merge(law.left[1], law.left[3])]
    /\ UNCHANGED <<vmvars, subsys>>

\* right: t.merge(u)
LawRightTU ==
    /\ law.step = 3
    /\ merge_assert(law.right[2], law.right[3])
    /\ law' = [law EXCEPT !.step = 4,
                          !.right[2] = merge(law.right[2], law.right[3])]
    /\ UNCHANGED <<vmvars, subsys>>

\* right: s.merge(t), t being t.u by now
LawRightST ==
    /\ law.step = 4
    /\ merge_assert(law.right[1], law.right[2])
    /\ law' = [law EXCEPT !.step = 5,
                          !.right[1] = merge(law.right[1], law.right[2])]
    /\ UNCHANGED <<vmvars, subsys>>

MergeNext ==
    \/ LawLeftST
    \/ LawSwapTS
    \/ LawLeftSU
    \/ LawRightTU
    \/ LawRightST

MergeSpec == MergeInit /\ [][MergeNext]_vars

\* --------------------------------------------------- the visitors (VisitSpec)

\* '{0:4d}'.format(n): right-justified in four columns, padded with spaces
Format4d(n) ==
    (CASE n < 10 -> "   " [] n < 100 -> "  " [] n < 1000 -> " " [] OTHER -> "")
        \o ToString(n)

\* self.func.__name__: the functions of the programs above are cond, a and b
instruction_name(ins) ==
    CASE ins.index = 0 -> "cond"
      [] ins.index = 1 -> "a"
      [] OTHER -> "b"

\* instruction.next_instruction(exit_status), as the visitors call it
next_instruction(ins, exit_status) ==
    CASE ins.kind = "rule" -> ins.next_instruction
      [] ins.kind = "return" -> NoIndex
      [] OTHER -> IF exit_status THEN ins.instruction_on_yes
                                 ELSE ins.instruction_on_no

\* '\n'.join(lines)
RECURSIVE join(_)
join(lines) ==
    IF lines = <<>> THEN ""
    ELSE IF Len(lines) = 1 THEN lines[1]
    ELSE lines[1] \o "\n" \o join(Tail(lines))

\* A visitor is its class, the lines it has so far and, for the classes with
\* statistics, the statistics list it was given (else none).
ToTextVisitor == [cls |-> "ToTextVisitor", lines |-> <<>>, statistics |-> <<>>]
ToTextVisitorWithStatistics(stats) ==
    [cls |-> "ToTextVisitorWithStatistics", lines |-> <<>>,
     statistics |-> stats]

addline(v, line) == [v EXCEPT !.lines = Append(@, line)]
addcomment(v, line) == addline(v, "     " \o line)
addcode(v, ins, line) == addline(v, Format4d(ins.index) \o " " \o line)

ToTextVisitor_format_branch(v, ins, name) ==
    LET on_success == ToString(next_instruction(ins, TRUE))
        on_failure == ToString(next_instruction(ins, FALSE))
    IN  addcomment(
            addcomment(addcode(v, ins, name), "  # True  -> " \o on_success),
            "  # False -> " \o on_failure)

ToTextVisitorWithStatistics_format_branch(v, ins, name) ==
    LET stat == v.statistics[ins.index]
        on_success == ToString(next_instruction(ins, TRUE))
        on_failure == ToString(next_instruction(ins, FALSE))
    IN  addcomment(
            addcomment(addcode(v, ins, name),
                "  # True  -> " \o on_success \o "   (*"
                    \o ToString(stat.success_count) \o ")"),
            "  # False -> " \o on_failure \o "   (*"
                \o ToString(stat.failure_count) \o ")")

ToTextVisitor_format_instruction(v, ins, name) == addcode(v, ins, name)

ToTextVisitorWithStatistics_format_instruction(v, ins, name) ==
    addcode(v, ins,
            name \o "   (*" \o ToString(v.statistics[ins.index].item_count)
                 \o ")")

\* the method the visitor's class resolves self.format_... to
format_branch(v, ins, name) ==
    IF v.cls = "ToTextVisitorWithStatistics"
    THEN ToTextVisitorWithStatistics_format_branch(v, ins, name)
    ELSE ToTextVisitor_format_branch(v, ins, name)

format_instruction(v, ins, name) ==
    IF v.cls = "ToTextVisitorWithStatistics"
    THEN ToTextVisitorWithStatistics_format_instruction(v, ins, name)
    ELSE ToTextVisitor_format_instruction(v, ins, name)

\* the main program has label None: nothing is added on entering it
ToTextVisitor_enter_subprogram(v) == v
ToTextVisitor_leave_subprogram(v) == addline(v, "END OF MAIN PROGRAM")

ToTextVisitor_visit_return(v, ins) ==
    IF ins.return_value = "None"
    THEN format_instruction(v, ins, "RETURN")
    ELSE format_instruction(v, ins, "RETURN " \o ins.return_value)

ToTextVisitor_visit_instruction(v, ins) ==
    addcode(v, ins, instruction_name(ins))

ToTextVisitor_visit_branch(v, ins) ==
    format_branch(v, ins, instruction_name(ins))

ToDotVisitor ==
    [cls |-> "ToDotVisitor", lines |-> <<"digraph {", "", "compound = true;">>,
     statistics |-> <<>>]
ToDotVisitorWithStatistics(stats) ==
    [cls |-> "ToDotVisitorWithStatistics",
     lines |-> <<"digraph {", "", "compound = true;">>, statistics |-> stats]

IsDot(v) == v.cls \in {"ToDotVisitor", "ToDotVisitorWithStatistics"}

\* no inter-cluster edge is added for a program without sub-programs
ToDotVisitor_text(v) == join(v.lines \o <<"}">>)
ToTextVisitor_text(v) == join(v.lines)

\* the main program: str(None) is 'None', and there is no label line
ToDotVisitor_enter_subprogram(v) ==
    addline(addline(v, ""), "subgraph \"cluster_None\" {")
ToDotVisitor_leave_subprogram(v) == addline(v, "}")

\* 'node_{}'.format(instruction.index); i is the index
node_name(i) == "node_" \o ToString(i)

\* the names and labels here hold no double quote: escape leaves them alone
add_node(v, ins, name) ==
    addline(v, "    " \o node_name(ins.index) \o " [label=\"" \o name \o "\"];")

format_edge(i1, i2, label) ==
    LET formatted_attrs ==
            IF label # "" THEN " [label=\"" \o label \o "\"]" ELSE ""
    IN  "    " \o node_name(i1) \o " -> " \o node_name(i2)
            \o formatted_attrs \o ";"

add_edge(v, i1, i2, label) == addline(v, format_edge(i1, i2, label))

ToDotVisitor_add_return_node(v, ins, name) == add_node(v, ins, name)

ToDotVisitorWithStatistics_add_return_node(v, ins, name) ==
    add_node(v, ins,
             name \o ": " \o ToString(v.statistics[ins.index].item_count))

add_return_node(v, ins, name) ==
    IF v.cls = "ToDotVisitorWithStatistics"
    THEN ToDotVisitorWithStatistics_add_return_node(v, ins, name)
    ELSE ToDotVisitor_add_return_node(v, ins, name)

ToDotVisitor_format_branch(v, ins, name) ==
    add_edge(
        add_edge(add_node(v, ins, name),
                 ins.index, next_instruction(ins, TRUE), "True"),
        ins.index, next_instruction(ins, FALSE), "False")

ToDotVisitorWithStatistics_format_branch(v, ins, name) ==
    LET stat == v.statistics[ins.index]
    IN  add_edge(
            add_edge(add_node(v, ins, name),
                     ins.index, next_instruction(ins, TRUE),
                     "True: " \o ToString(stat.success_count)),
            ins.index, next_instruction(ins, FALSE),
            "False: " \o ToString(stat.failure_count))

ToDotVisitor_format_instruction(v, ins, name) ==
    add_edge(add_node(v, ins, name),
             ins.index, next_instruction(ins, TRUE), "")

ToDotVisitor_visit_return(v, ins) ==
    IF ins.return_value = "None"
    THEN add_return_node(v, ins, "RETURN")
    ELSE add_return_node(v, ins, "RETURN " \o ins.return_value)

ToDotVisitor_visit_instruction(v, ins) ==
    ToDotVisitor_format_instruction(v, ins, instruction_name(ins))

ToDotVisitor_visit_branch(v, ins) ==
    IF v.cls = "ToDotVisitorWithStatistics"
    THEN ToDotVisitorWithStatistics_format_branch(v, ins, instruction_name(ins))
    ELSE ToDotVisitor_format_branch(v, ins, instruction_name(ins))

\* instruction.accept(visitor): a return instruction goes to visit_return, a
\* branching one to visit_branch, any other to visit_instruction
visit(v, ins) ==
    CASE ins.kind = "return" ->
            IF IsDot(v) THEN ToDotVisitor_visit_return(v, ins)
                        ELSE ToTextVisitor_visit_return(v, ins)
      [] ins.kind = "rule" ->
            IF IsDot(v) THEN ToDotVisitor_visit_instruction(v, ins)
                        ELSE ToTextVisitor_visit_instruction(v, ins)
      [] OTHER ->
            IF IsDot(v) THEN ToDotVisitor_visit_branch(v, ins)
                        ELSE ToTextVisitor_visit_branch(v, ins)

RECURSIVE visit_from(_, _, _)
visit_from(v, instrs, i) ==
    IF i \notin DOMAIN instrs THEN v
    ELSE visit_from(visit(v, instrs[i]), instrs, i + 1)

\* Program.accept(visitor): the main program is entered, its instructions are
\* visited in index order, and it is left
accept(instrs, v) ==
    LET entered == IF IsDot(v) THEN ToDotVisitor_enter_subprogram(v)
                               ELSE ToTextVisitor_enter_subprogram(v)
        visited == visit_from(entered, instrs, 0)
    IN  IF IsDot(v) THEN ToDotVisitor_leave_subprogram(visited)
                    ELSE ToTextVisitor_leave_subprogram(visited)

\* Program.to_text
Program_to_text_statistics(instrs, stats, with_statistics) ==
    ToTextVisitor_text(accept(instrs, ToTextVisitorWithStatistics(stats)))

Program_to_text(instrs, stats, with_statistics) ==
    LET v == IF with_statistics THEN ToTextVisitorWithStatistics(stats)
                                ELSE ToTextVisitor
    IN  ToTextVisitor_text(accept(instrs, v))

\* the lines of the listing, before text() joins them
to_text_lines(instrs, stats, with_statistics) ==
    LET v == IF with_statistics THEN ToTextVisitorWithStatistics(stats)
                                ELSE ToTextVisitor
    IN  accept(instrs, v).lines

\* Program.to_dot
Program_to_dot(instrs, stats, with_statistics) ==
    LET v == IF with_statistics THEN ToDotVisitorWithStatistics(stats)
                                ELSE ToDotVisitor
    IN  ToDotVisitor_text(accept(instrs, v))

\* Statistics a Program shows after runs none of which raised
VisitStats(i) ==
    {x \in StatInputs(i) :
        x.success_count + x.failure_count = x.item_count /\ x.run_time = 0}

\* Two Programs of one shape: P with statistics of runs, W as constructed
VisitInit ==
    /\ instructions \in Programs
    /\ \E stats \in [DOMAIN instructions -> UNION {VisitStats(i) : i \in 0..3}] :
        /\ \A i \in DOMAIN instructions : stats[i].index = i
        /\ statistics = [P |-> stats, W |-> Program_statistics(instructions)]
    /\ VmAtRest
    /\ law = NoLaw
    /\ cc = NoCc /\ trace = NoTrace /\ dag = NoDag /\ batch = NoBatch
    /\ job = NoJob
    /\ vis = NoVis

\* P.to_text(with_statistics) or W.to_text(with_statistics)
ToText ==
    /\ vis.step = 0
    /\ \E p \in Progs, w \in BOOLEAN :
        vis' = [step |-> 1, op |-> "to_text", p |-> p, with_statistics |-> w,
                lines |-> to_text_lines(instructions, statistics[p], w),
                text |-> Program_to_text(instructions, statistics[p], w)]
    /\ UNCHANGED <<vmvars, law, cc, trace, dag, batch, job>>

\* P.to_dot(with_statistics) or W.to_dot(with_statistics)
ToDot ==
    /\ vis.step = 0
    /\ \E p \in Progs, w \in BOOLEAN :
        vis' = [step |-> 1, op |-> "to_dot", p |-> p, with_statistics |-> w,
                lines |-> <<>>,
                text |-> Program_to_dot(instructions, statistics[p], w)]
    /\ UNCHANGED <<vmvars, law, cc, trace, dag, batch, job>>

VisitNext ==
    \/ ToText
    \/ ToDot

VisitSpec == VisitInit /\ [][VisitNext]_vars

\* ------------------------------------------------- the compiler (CompileSpec)

\* an edge that waits for its target
Unresolved == -2

Labels == {"x"}

\* The primitives of a program description. The condition of IF / IF_NOT /
\* ELIF / ELIF_NOT is a branch; DEF and CALL carry a label.
Primitive(op, label) == [op |-> op, label |-> label]
Primitives ==
    {Primitive(op, "") :
        op \in {"rule", "IF", "IF_NOT", "ELIF", "ELIF_NOT", "ELSE", "ENDIF",
                "RETURN", "RETURN_TRUE", "RETURN_FALSE", "END_DEF"}}
    \cup {Primitive(op, l) : op \in {"DEF", "CALL"}, l \in Labels}

\* instructions as the compiler emits them, position k + 1 holding index k
Emitted(k, kind, value) ==
    [index |-> k, kind |-> kind, next_on_true |-> Unresolved,
     next_on_false |-> Unresolved, return_value |-> value]
EmittedReturn(k, value) ==
    [Emitted(k, "return", value)
        EXCEPT !.next_on_true = NoIndex, !.next_on_false = NoIndex]

\* a rule has one successor: both its edges
BothEdges(k) == {<<k, "next_on_true">>, <<k, "next_on_false">>}

\* the edge that enters the arm of a condition, and the one that skips it
ArmEdge(k, negated) ==
    <<k, IF negated THEN "next_on_false" ELSE "next_on_true">>
LiveEdge(k, negated) ==
    <<k, IF negated THEN "next_on_true" ELSE "next_on_false">>

\* the compiler before the first primitive
Compiler ==
    [status |-> "compiling", error |-> "", desc |-> <<>>, instructions |-> <<>>,
     open |-> {}, frames |-> <<>>, sub_programs |-> {}, calls |-> {},
     in_def |-> ""]

compile_error(c, message) == [c EXCEPT !.status = "error", !.error = message]

\* the edges in `edges` get target as their index
resolve(instrs, edges, target) ==
    [p \in DOMAIN instrs |->
        [instrs[p] EXCEPT
            !.next_on_true =
                IF <<instrs[p].index, "next_on_true">> \in edges
                THEN target ELSE @,
            !.next_on_false =
                IF <<instrs[p].index, "next_on_false">> \in edges
                THEN target ELSE @]]

\* linear emission: the instruction is appended, every edge that waits for
\* the next instruction gets its index, and pending is what now waits
emit(c, ins, pending) ==
    [c EXCEPT !.instructions = Append(resolve(@, c.open, ins.index), ins),
              !.open = pending]

emit_position(c) == Len(c.instructions)

compile_rule(c) ==
    LET k == emit_position(c)
    IN  emit(c, Emitted(k, "rule", "None"), BothEdges(k))

\* IF / IF_NOT: the branch is emitted and a frame pushed
compile_if(c, negated) ==
    LET k == emit_position(c)
    IN  [emit(c, Emitted(k, "branch", "None"), {ArmEdge(k, negated)})
            EXCEPT !.frames =
                Append(@, [live |-> {LiveEdge(k, negated)}, ends |-> {}])]

\* the current arm is closed: its fallthrough waits for ENDIF, the live
\* edge of the condition waits for the next instruction
close_arm(c) ==
    LET n == Len(c.frames)
    IN  [c EXCEPT !.frames[n].ends = @ \cup c.open,
                  !.frames[n].live = {},
                  !.open = c.frames[n].live]

compile_elif(c, negated) ==
    IF c.frames = <<>> THEN compile_error(c, "ELIF with no matching IF")
    ELSE LET k == emit_position(c)
             n == Len(c.frames)
         IN  [emit(close_arm(c), Emitted(k, "branch", "None"),
                   {ArmEdge(k, negated)})
                EXCEPT !.frames[n].live = {LiveEdge(k, negated)}]

compile_else(c) ==
    IF c.frames = <<>> THEN compile_error(c, "ELSE with no matching IF")
    ELSE close_arm(c)

\* ENDIF: the arm's fallthrough, the live edge and every pending end wait
\* for the next instruction; the frame is popped
compile_endif(c) ==
    IF c.frames = <<>> THEN compile_error(c, "ENDIF with no matching IF")
    ELSE LET n == Len(c.frames)
         IN  [c EXCEPT !.open = @ \cup c.frames[n].live \cup c.frames[n].ends,
                       !.frames = SubSeq(@, 1, n - 1)]

compile_return(c, value) ==
    emit(c, EmittedReturn(emit_position(c), value), {})

\* sub_programs holds <<label, entry index>>
Defined(c, label) == \E e \in c.sub_programs : e[1] = label
Entry(c, label) == (CHOOSE e \in c.sub_programs : e[1] = label)[2]

\* DEF: the emit position is the entry of the sub-program; the calls that
\* wait for the label get it. A DEF inside a DEF is taken as malformed.
compile_def(c, label) ==
    IF Defined(c, label) THEN compile_error(c, "duplicate label")
    ELSE IF c.in_def # "" THEN compile_error(c, "DEF inside DEF")
    ELSE LET k == emit_position(c)
             waiting == {e \in c.calls : e[2] = label}
         IN  [c EXCEPT
                !.sub_programs = @ \cup {<<label, k>>},
                !.in_def = label,
                !.instructions =
                    resolve(@, UNION {BothEdges(e[1]) : e \in waiting}, k),
                !.calls = @ \ waiting]

\* END_DEF: the implicit RETURN. An END_DEF outside a DEF is taken as
\* malformed.
compile_end_def(c) ==
    IF c.in_def = "" THEN compile_error(c, "END_DEF with no DEF")
    ELSE [compile_return(c, "None") EXCEPT !.in_def = ""]

\* CALL: a rule-like instruction whose successor is the entry of the
\* sub-program, looked up now or when the label is defined
compile_call(c, label) ==
    LET k == emit_position(c)
        emitted == emit(c, Emitted(k, "call", "None"), {})
        n == Len(emitted.instructions)
    IN  IF Defined(c, label)
        THEN [emitted EXCEPT
                !.instructions[n].next_on_true = Entry(c, label),
                !.instructions[n].next_on_false = Entry(c, label)]
        ELSE [emitted EXCEPT !.calls = @ \cup {<<k, label>>}]

\* post-compilation: every edge of every non-return instruction is an index
verify_off(c) == TRUE

verify(c) ==
    \A p \in DOMAIN c.instructions :
        c.instructions[p].kind # "return" =>
            /\ c.instructions[p].next_on_true \in 0..(Len(c.instructions) - 1)
            /\ c.instructions[p].next_on_false \in 0..(Len(c.instructions) - 1)

\* whether an IF frame is still open at the end of the description
open_frame_off(c) == FALSE

open_frame(c) == c.frames # <<>>

\* the end of the description
compile_end(c) ==
    CASE open_frame(c) -> compile_error(c, "open IF frame")
      [] c.in_def # "" -> compile_error(c, "DEF with no END_DEF")
      [] c.calls # {} -> compile_error(c, "CALL of an undefined label")
      [] ~verify(c) -> compile_error(c, "edge to non-existent index")
      [] OTHER -> [c EXCEPT !.status = "ok"]

\* one primitive of the description
compile_primitive(c, prim) ==
    LET seen == [c EXCEPT !.desc = Append(@, prim)]
    IN  CASE prim.op = "rule" -> compile_rule(seen)
          [] prim.op = "IF" -> compile_if(seen, FALSE)
          [] prim.op = "IF_NOT" -> compile_if(seen, TRUE)
          [] prim.op = "ELIF" -> compile_elif(seen, FALSE)
          [] prim.op = "ELIF_NOT" -> compile_elif(seen, TRUE)
          [] prim.op = "ELSE" -> compile_else(seen)
          [] prim.op = "ENDIF" -> compile_endif(seen)
          [] prim.op = "RETURN" -> compile_return(seen, "None")
          [] prim.op = "RETURN_TRUE" -> compile_return(seen, "True")
          [] prim.op = "RETURN_FALSE" -> compile_return(seen, "False")
          [] prim.op = "DEF" -> compile_def(seen, prim.label)
          [] prim.op = "END_DEF" -> compile_end_def(seen)
          [] prim.op = "CALL" -> compile_call(seen, prim.label)

\* compile(description): the primitives in order, the first error aborting
RECURSIVE compile_from(_, _)
compile_from(c, description) ==
    IF c.status = "error" THEN c
    ELSE IF description = <<>> THEN compile_end(c)
    ELSE compile_from(compile_primitive(c, Head(description)),
                      Tail(description))

compile(description) == compile_from(Compiler, description)

\* the instructions of a compiled Program as the VM runs them
Lower(c) ==
    [i \in 0..(Len(c.instructions) - 1) |->
        LET ins == c.instructions[i + 1]
        IN  CASE ins.kind = "return" -> Return(i, ins.return_value)
              [] ins.kind = "branch" ->
                    Branch(i, "branch", ins.next_on_true, ins.next_on_false)
              [] OTHER -> Rule(i, ins.next_on_true)]

\* compile is given a description primitive by primitive
CompileInit ==
    /\ VmInit
    /\ instructions = Program("branch")
    /\ law = NoLaw
    /\ trace = NoTrace /\ vis = NoVis /\ dag = NoDag /\ batch = NoBatch
    /\ job = NoJob
    /\ cc = Compiler

\* the next primitive of the description is compiled
CompilePrimitive ==
    /\ cc.status = "compiling"
    /\ Len(cc.desc) < MaxDesc
    /\ \E prim \in Primitives : cc' = compile_primitive(cc, prim)
    /\ UNCHANGED <<vmvars, law, trace, vis, dag, batch, job>>

\* The description is over. Program.__init__ has the compiled instructions
\* and builds their statistics; a compile error leaves no Program.
CompileEnd ==
    /\ cc.status = "compiling"
    /\ cc' = compile_end(cc)
    /\ IF cc'.status = "ok"
       THEN /\ instructions' = Lower(cc')
            /\ statistics' = [p \in Progs |-> Program_statistics(instructions')]
            /\ tally' = [p \in Progs |->
                            [i \in DOMAIN instructions' |-> NoTally]]
       ELSE UNCHANGED <<instructions, statistics, tally>>
    /\ UNCHANGED <<pc, cur, ip, flag, payload, list_len, items, merges, last,
                   law, trace, vis, dag, batch, job>>

CompileNext ==
    \/ CompilePrimitive
    \/ CompileEnd

CompileSpec == CompileInit /\ [][CompileNext]_vars

\* ------------------------------------ a compiled IF ... ELSE ... ENDIF run
\* (BranchSpec)

\* [IF (cond), a, ELSE, b, ENDIF, RETURN]
BranchDescription ==
    <<Primitive("IF", ""), Primitive("rule", ""), Primitive("ELSE", ""),
      Primitive("rule", ""), Primitive("ENDIF", ""), Primitive("RETURN", "")>>

\* the bodies: cond is  lambda x: x > 0,  a is  lambda x: x * 2,  b is
\* lambda x: -x
Body(ins, p) ==
    CASE instruction_name(ins) = "cond" -> IF p.v > 0 THEN PyTrue ELSE PyFalse
      [] instruction_name(ins) = "a" -> PyInt(p.v * 2)
      [] OTHER -> PyInt(-p.v)

BranchInit ==
    /\ instructions = Lower(compile(BranchDescription))
    /\ statistics = [p \in Progs |-> Program_statistics(instructions)]
    /\ VmAtRest
    /\ law = NoLaw
    /\ cc = NoCc /\ vis = NoVis /\ dag = NoDag /\ batch = NoBatch
    /\ job = NoJob
    /\ trace = NoTrace

\* Program.run(data) is entered with an int payload
BranchRunStart ==
    /\ pc = "idle"
    /\ items < MaxItems
    /\ \E p \in Progs, n \in (-MaxPayload)..MaxPayload :
        /\ cur' = p
        /\ payload' = PyInt(n)
        /\ trace' = [step |-> 1, input |-> n, visited |-> <<>>]
    /\ list_len' = 0
    /\ pc' = "running"
    /\ ip' = 0
    /\ flag' = TRUE
    /\ items' = items + 1
    /\ last' = [op |-> "start"]
    /\ UNCHANGED <<law, cc, vis, dag, batch, job, instructions, statistics, tally,
                   merges>>

\* Program.run_instruction on the instruction at ip, its body as above
BranchRunInstruction ==
    /\ pc = "running"
    /\ instructions[ip].kind # "return"
    /\ \E elapsed \in Elapsed :
        LET ins == instructions[ip]
            output == Body(ins, payload)
            res == instruction_run(ins, flag, payload, output, 0)
        IN  /\ statistics' = [statistics EXCEPT ![cur][ip] =
                    count_result(count_item(@), res.flag, elapsed)]
            /\ tally' = [tally EXCEPT ![cur][ip] =
                    IF BodyOk(ins.kind, output, 0)
                    THEN [@ EXCEPT !.ok = @ + 1]
                    ELSE [@ EXCEPT !.no = @ + 1]]
            /\ ip' = res.next
            /\ flag' = res.flag
            /\ payload' = res.payload
            /\ last' = [op |-> "run_instruction", index |-> ip,
                        raised |-> FALSE, output |-> output]
    /\ trace' = [trace EXCEPT !.visited = Append(@, ip)]
    /\ UNCHANGED <<law, cc, vis, dag, batch, job, instructions, pc, cur, list_len,
                   items, merges>>

\* the run got to a return instruction: data is handed back
BranchRunReturn ==
    /\ pc = "running"
    /\ instructions[ip].kind = "return"
    /\ trace' = [trace EXCEPT !.step = 2, !.visited = Append(@, ip)]
    /\ pc' = "idle"
    /\ last' = [op |-> "run", raised |-> FALSE, index |-> ip,
                flag |-> return_flag(instructions[ip], flag),
                payload |-> payload]
    /\ UNCHANGED <<law, cc, vis, dag, batch, job, instructions, statistics, tally,
                   cur, ip, flag, payload, list_len, items, merges>>

BranchNext ==
    \/ BranchRunStart
    \/ BranchRunInstruction
    \/ BranchRunReturn

BranchSpec == BranchInit /\ [][BranchNext]_vars

\* ------------------------------------------- the DAG config reader (DagSpec)

\* None and the IMPLICIT_NEXT object, as strings no node can be named by
\* (a nodename is a word of alphanumerics and '_')
None == "<None>"
IMPLICIT_NEXT == "<object>"
STOP_NODE_NAME == "STOP"

\* the words a config uses as node names
NodeWords == {"a", "b", STOP_NODE_NAME}
OutputLabels == {<<"S">>, <<"F">>, <<"H">>, <<"S", "F">>}

\* an output edge definition as written: the labels, '->', the node name
EdgeDefs == [labels : OutputLabels, nodename : NodeWords]

\* the output edge definitions of one node definition: none, one, or two
\* with one label each, S before F before H
EdgeDefLists ==
    {<<>>} \cup {<<e>> : e \in EdgeDefs}
    \cup {ef \in {x \in EdgeDefs : x.labels \in {<<"S">>, <<"F">>}}
                 \X {x \in EdgeDefs : x.labels \in {<<"F">>, <<"H">>}} :
            ef[1].labels # ef[2].labels}

\* Node(), with what define assigns; explicit remembers the labels an output
\* definition has set
Node(name) ==
    [name |-> name, success |-> IMPLICIT_NEXT, fail |-> IMPLICIT_NEXT,
     human |-> None, explicit |-> {}]

\* DagConfigReader.reset
reset == [nodes |-> <<>>, futures |-> {}, nodenames |-> {}]

\* a call that went through, and one left by an exception
Done(r) == [r |-> r, exc |-> ""]
Raised(r, message) == [r |-> r, exc |-> message]

fix_implicit_edges_with(r, nodename) ==
    IF r.nodes = <<>> THEN r
    ELSE LET last_node == Len(r.nodes)
         IN  [r EXCEPT
                !.nodes[last_node].success =
                    IF @ = IMPLICIT_NEXT THEN nodename ELSE @,
                !.nodes[last_node].fail =
                    IF @ = IMPLICIT_NEXT THEN nodename ELSE @]

define(r, name) ==
    IF name \in r.nodenames THEN Raised(r, "Duplicate definition")
    ELSE LET fixed == fix_implicit_edges_with(r, name)
         IN  Done([nodes |-> Append(fixed.nodes, Node(name)),
                   nodenames |-> fixed.nodenames \cup {name},
                   futures |-> fixed.futures \ {name}])

\* whether add_edge refuses the destination
not_monotone_self_allowed(r, destnodename) ==
    destnodename \in r.nodenames \ {r.nodes[Len(r.nodes)].name}

not_monotone(r, destnodename) == destnodename \in r.nodenames

DagConfigReader_add_edge(r, label, destnodename) ==
    IF not_monotone(r, destnodename)
    THEN Raised(r, "already defined, config is not monotone")
    ELSE LET n == Len(r.nodes)
             added == [r EXCEPT !.futures =
                          IF destnodename # None THEN @ \cup {destnodename}
                                                 ELSE @]
         IN  Done([added EXCEPT
                !.nodes[n].success = IF label = "S" THEN destnodename ELSE @,
                !.nodes[n].fail = IF label = "F" THEN destnodename ELSE @,
                !.nodes[n].human = IF label = "H" THEN destnodename ELSE @,
                !.nodes[n].explicit = @ \cup {label}])

\* the parse action of a node name: STOP becomes None
handle_nodename(word) == IF word = STOP_NODE_NAME THEN None ELSE word

\* the parse action of an output edge definition: a pair per label
handle_edgedef(edgedef) ==
    [k \in 1..Len(edgedef.labels) |->
        <<edgedef.labels[k], handle_nodename(edgedef.nodename)>>]

RECURSIVE flatten(_)
flatten(edgedefs) ==
    IF edgedefs = <<>> THEN <<>>
    ELSE handle_edgedef(Head(edgedefs)) \o flatten(Tail(edgedefs))

\* for (label, destnodename) in output_edgedefs: self.DagConfigReader_add_edge(...), left
\* at the first exception
RECURSIVE add_edges(_, _)
add_edges(r, pairs) ==
    IF pairs = <<>> THEN Done(r)
    ELSE LET one == DagConfigReader_add_edge(r, Head(pairs)[1], Head(pairs)[2])
         IN  IF one.exc # "" THEN one ELSE add_edges(one.r, Tail(pairs))

\* the parse action of a node definition; what was done before an exception
\* stays done
handle_nodedef(r, word, edgedefs) ==
    LET nodename == handle_nodename(word)
    IN  IF nodename = None THEN Raised(r, "STOP is reserved name")
        ELSE LET defined == define(r, nodename)
             IN  IF defined.exc # "" THEN defined
                 ELSE add_edges(defined.r, flatten(edgedefs))

\* DAG(start_node, name2node)
DAG(start_node, name2node) ==
    [start_node |-> start_node, name2node |-> name2node]

\* dict((n.name, n) for n in self.nodes)
name2node(nodes) ==
    [name \in {nodes[k].name : k \in DOMAIN nodes} |->
        nodes[CHOOSE k \in DOMAIN nodes :
                /\ nodes[k].name = name
                /\ \A m \in DOMAIN nodes : nodes[m].name = name => m <= k]]

NoResult == [start_node |-> None]

\* What is remembered of the node definition parsed last: whether it was
\* for a node name (not STOP) that was not defined yet, whether one of its
\* output edge definitions named a node defined by then (itself included),
\* and the exception that left its parse action, if any
NoNodedef == [fresh |-> FALSE, backward |-> FALSE, exc |-> ""]

\* a reader as DagConfigReader() leaves it; first is the node name of the
\* first node definition of the string being read, r0 the nodes, futures and
\* nodenames the call began with
DagReader ==
    [status |-> "idle", r |-> reset, parseresults |-> <<>>, nodedefs |-> 0,
     last |-> NoNodedef, calls |-> 0, result |-> NoResult, defined |-> <<>>,
     error |-> "", first |-> None, r0 |-> reset]

DagInit ==
    /\ VmInit
    /\ instructions = Program("branch")
    /\ law = NoLaw
    /\ cc = NoCc /\ trace = NoTrace /\ vis = NoVis /\ batch = NoBatch
    /\ job = NoJob
    /\ dag = DagReader

\* from_string is called: the grammar is built, the parser starts; the
\* reader is as the call before left it
FromString ==
    /\ dag.status \in {"idle", "returned", "raised"}
    /\ dag.calls < MaxCalls
    /\ dag' = [dag EXCEPT !.status = "parsing", !.parseresults = <<>>,
                          !.nodedefs = 0, !.last = NoNodedef,
                          !.calls = @ + 1,
                          !.result = NoResult, !.defined = <<>>,
                          !.error = "", !.first = None, !.r0 = dag.r]
    /\ UNCHANGED <<vmvars, law, cc, trace, vis, batch, job>>

\* the parser has matched one more node definition
HandleNodedef ==
    /\ dag.status = "parsing"
    /\ dag.nodedefs < MaxNodedefs
    /\ \E word \in NodeWords, edgedefs \in EdgeDefLists :
        LET done == handle_nodedef(dag.r, word, edgedefs)
        IN  dag' = [dag EXCEPT
                !.r = done.r,
                !.parseresults =
                    IF done.exc # "" THEN Append(@, done.exc) ELSE @,
                !.nodedefs = @ + 1,
                !.first = IF dag.nodedefs = 0 THEN word ELSE @,
                !.last =
                    [fresh |-> word # STOP_NODE_NAME /\ word \notin dag.r.nodenames,
                     backward |->
                        \E k \in DOMAIN edgedefs :
                            edgedefs[k].nodename \in dag.r.nodenames \cup {word},
                     exc |-> done.exc]]
    /\ UNCHANGED <<vmvars, law, cc, trace, vis, batch, job>>

\* the string is parsed and a parse action had failed: raise parseresults[0]
FromStringRaise ==
    /\ dag.status = "parsing"
    /\ dag.nodedefs > 0
    /\ dag.parseresults # <<>>
    /\ dag' = [dag EXCEPT !.status = "raised", !.error = dag.parseresults[1]]
    /\ UNCHANGED <<vmvars, law, cc, trace, vis, batch, job>>

\* the string is parsed, the last node is fixed, and an edge names a node
\* that is not defined
FromStringUndefined ==
    /\ dag.status = "parsing"
    /\ dag.nodedefs > 0
    /\ dag.parseresults = <<>>
    /\ LET fixed == fix_implicit_edges_with(dag.r, None)
       IN  /\ fixed.futures # {}
           /\ dag' = [dag EXCEPT !.status = "raised", !.r = fixed,
                                 !.error = "Undefined nodes"]
    /\ UNCHANGED <<vmvars, law, cc, trace, vis, batch, job>>

\* the string is parsed, the last node is fixed: the DAG is built and given
\* back, the reader is reset
FromStringReturn ==
    /\ dag.status = "parsing"
    /\ dag.nodedefs > 0
    /\ dag.parseresults = <<>>
    /\ LET fixed == fix_implicit_edges_with(dag.r, None)
       IN  /\ fixed.futures = {}
           /\ dag' = [dag EXCEPT
                !.status = "returned",
                !.result = DAG(fixed.nodes[1], name2node(fixed.nodes)),
                !.defined = [k \in DOMAIN fixed.nodes |-> fixed.nodes[k].name],
                !.r = reset]
    /\ UNCHANGED <<vmvars, law, cc, trace, vis, batch, job>>

DagNext ==
    \/ FromString
    \/ HandleNodedef
    \/ FromStringRaise
    \/ FromStringUndefined
    \/ FromStringReturn

DagSpec == DagInit /\ [][DagNext]_vars

\* ------------------------------------- Application.process_batch (BatchSpec)

\* A data item is its id and its payload: 0 as loaded, 1 once an instruction
\* has assigned to data.payload
Data(id) == [id |-> id, payload |-> 0]

\* what load_data_items can return: lists of distinct items, in any order
ItemLists ==
    {ids \in UNION {[1..n -> 1..MaxBatch] : n \in 0..MaxBatch} :
        \A j, k \in DOMAIN ids : j # k => ids[j] # ids[k]}

\* self.program.run(data_item): it returns the data it was given, or raises;
\* either way the payload may have been assigned by then
Runs(data_item) ==
    {[raised |-> r, data |-> [data_item EXCEPT !.payload = p]] :
        r \in BOOLEAN, p \in {0, 1}}

\* Application.process_data_item: what its caller gets
process_data_item_raising(data_item, run) ==
    IF run.raised THEN [returned |-> FALSE, value |-> run.data]
                  ELSE [returned |-> TRUE, value |-> run.data]

process_data_item(data_item, run) ==
    IF run.raised
    THEN \* except: ... return data_item, the object as the run left it
         [returned |-> TRUE, value |-> run.data]
    ELSE \* return self.program.run(data_item)
         [returned |-> TRUE, value |-> run.data]

\* the batch before process_batch
Batch ==
    [pc |-> "idle", loaded |-> <<>>, processed |-> <<>>, raised |-> <<>>,
     saved |-> <<>>, save_calls |-> 0, time_completed |-> FALSE,
     statistics_saved |-> FALSE, committed |-> FALSE, failed_at |-> ""]

BatchInit ==
    /\ VmInit
    /\ instructions = Program("branch")
    /\ law = NoLaw
    /\ cc = NoCc /\ trace = NoTrace /\ vis = NoVis /\ dag = NoDag
    /\ job = NoJob
    /\ batch = Batch

\* process_batch: load_data_items returns the items of the batch
LoadDataItems ==
    /\ batch.pc = "idle"
    /\ \E ids \in ItemLists :
        batch' = [batch EXCEPT !.pc = "items",
                               !.loaded = [k \in DOMAIN ids |-> Data(ids[k])]]
    /\ UNCHANGED <<vmvars, law, cc, trace, vis, dag, job>>

\* process_batch: load_data_items raises
LoadDataItemsRaises ==
    /\ batch.pc = "idle"
    /\ batch' = [batch EXCEPT !.pc = "failed", !.failed_at = "load"]
    /\ UNCHANGED <<vmvars, law, cc, trace, vis, dag, job>>

\* the list comprehension gives the next item to process_data_item
ProcessDataItem ==
    /\ batch.pc = "items"
    /\ Len(batch.processed) < Len(batch.loaded)
    /\ LET data_item == batch.loaded[Len(batch.processed) + 1]
       IN  \E run \in Runs(data_item) :
            LET result == process_data_item(data_item, run)
            IN  IF result.returned
                THEN batch' = [batch EXCEPT
                        !.processed = Append(@, result.value),
                        !.raised = Append(@, run.raised)]
                ELSE batch' = [batch EXCEPT !.pc = "failed",
                                            !.failed_at = "process"]
    /\ UNCHANGED <<vmvars, law, cc, trace, vis, dag, job>>

\* the comprehension is over: save_data_items(processed_data_items) returns
SaveDataItems ==
    /\ batch.pc = "items"
    /\ Len(batch.processed) = Len(batch.loaded)
    /\ batch' = [batch EXCEPT !.pc = "saved", !.saved = batch.processed,
                              !.save_calls = @ + 1]
    /\ UNCHANGED <<vmvars, law, cc, trace, vis, dag, job>>

\* save_data_items raises
SaveDataItemsRaises ==
    /\ batch.pc = "items"
    /\ Len(batch.processed) = Len(batch.loaded)
    /\ batch' = [batch EXCEPT !.pc = "failed", !.failed_at = "save",
                              !.save_calls = @ + 1]
    /\ UNCHANGED <<vmvars, law, cc, trace, vis, dag, job>>

\* self.batch.time_completed and program_config_hash are set
CompleteBatchEarly ==
    /\ batch.pc = "items"
    /\ Len(batch.processed) = Len(batch.loaded)
    /\ batch' = [batch EXCEPT !.pc = "completed", !.time_completed = TRUE]
    /\ UNCHANGED <<vmvars, law, cc, trace, vis, dag, job>>

CompleteBatch ==
    /\ batch.pc = "saved"
    /\ batch' = [batch EXCEPT !.pc = "completed", !.time_completed = TRUE]
    /\ UNCHANGED <<vmvars, law, cc, trace, vis, dag, job>>

\* self.save_batch_statistics()
SaveBatchStatistics ==
    /\ batch.pc = "completed"
    /\ batch' = [batch EXCEPT !.pc = "statistics", !.statistics_saved = TRUE]
    /\ UNCHANGED <<vmvars, law, cc, trace, vis, dag, job>>

\* save_batch_statistics raises: the batch object already has its
\* time_completed, the session has not been committed
SaveBatchStatisticsRaises ==
    /\ batch.pc = "completed"
    /\ batch' = [batch EXCEPT !.pc = "failed", !.failed_at = "statistics"]
    /\ UNCHANGED <<vmvars, law, cc, trace, vis, dag, job>>

\* self.session.commit() raises
CommitRaises ==
    /\ batch.pc = "statistics"
    /\ batch' = [batch EXCEPT !.pc = "failed", !.failed_at = "commit"]
    /\ UNCHANGED <<vmvars, law, cc, trace, vis, dag, job>>

\* self.session.commit()
Commit ==
    /\ batch.pc = "statistics"
    /\ batch' = [batch EXCEPT !.pc = "done", !.committed = TRUE]
    /\ UNCHANGED <<vmvars, law, cc, trace, vis, dag, job>>

BatchNext ==
    \/ LoadDataItems
    \/ LoadDataItemsRaises
    \/ ProcessDataItem
    \/ SaveDataItems
    \/ SaveDataItemsRaises
    \/ CompleteBatch
    \/ SaveBatchStatistics
    \/ SaveBatchStatisticsRaises
    \/ Commit
    \/ CommitRaises

BatchSpec == BatchInit /\ [][BatchNext]_vars

\* ------------------------------------------- the batches of a job (JobSpec)

\* the batches of the job, and how many data items a batch can have
BatchIds == 1..MaxBatches
BatchSizes == {1, 2}

\* a batch of the job as create_batches left it: not processed, no statistics
JobBatch(size) == [size |-> size, time_completed |-> FALSE, statistics |-> <<>>]

\* Batch.is_processed
is_processed(b) == b.time_completed

\* the instructions a run that enters instrs[i] can enter, in order: the run
\* goes on to a return instruction, or a body raises on the way
RECURSIVE Executions(_, _)
Executions(instrs, i) ==
    IF instrs[i].kind = "return" THEN {<<>>}
    ELSE LET nexts == IF instrs[i].kind = "rule"
                      THEN {instrs[i].next_instruction}
                      ELSE {instrs[i].instruction_on_yes,
                            instrs[i].instruction_on_no}
         IN  {<<i>>} \cup
             {<<i>> \o rest : rest \in UNION {Executions(instrs, n) : n \in nexts}}

\* the statistics after a run: item_count of each instruction entered is
\* one more (the counts of the results are not followed here)
RECURSIVE run_counted(_, _)
run_counted(stats, execution) ==
    IF execution = <<>> THEN stats
    ELSE run_counted([stats EXCEPT ![Head(execution)] = count_item(@)],
                     Tail(execution))

\* [self.process_data_item(item) for item in data_items]
RECURSIVE run_items(_, _)
run_items(stats, executions) ==
    IF executions = <<>> THEN stats
    ELSE run_items(run_counted(stats, Head(executions)), Tail(executions))

\* how often each instruction is entered by these executions
RECURSIVE Entries(_, _)
Entries(executions, i) ==
    IF executions = <<>> THEN 0
    ELSE Cardinality({k \in DOMAIN Head(executions) : Head(executions)[k] = i})
         + Entries(Tail(executions), i)

\* Batch.save_statistics(program): the statistics of the program as they are
save_statistics(b, stats) == [b EXCEPT !.statistics = stats]

\* Batch.merge_statistics_into(program): each saved statistic is merged into
\* the statistic of its index
merge_statistics_into(b, stats) ==
    IF b.statistics = <<>> THEN stats
    ELSE [i \in DOMAIN stats |-> merge(stats[i], b.statistics[i])]

\* Application.process_batch going through: the items are run by the
\* program, the batch is completed and the statistics of the program saved
process_batch(b, stats) ==
    save_statistics([b EXCEPT !.time_completed = TRUE], stats)

\* StatisticsCommand: the batches merged, in order, into a loaded program
RECURSIVE merge_batches(_, _, _)
merge_batches(batches, k, stats) ==
    IF k > Len(batches) THEN stats
    ELSE merge_batches(batches, k + 1, merge_statistics_into(batches[k], stats))

\* batch_ids = [batch.batch_id for batch in job.batches if not is_processed]
batch_ids_all(batches, k) == [n \in k..Len(batches) |-> n]

RECURSIVE batch_ids(_, _)
batch_ids(batches, k) ==
    IF k > Len(batches) THEN <<>>
    ELSE (IF is_processed(batches[k]) THEN <<>> ELSE <<k>>)
         \o batch_ids(batches, k + 1)

\* a job with its batches, no command at work on it. program is the
\* statistics of the Program of the running command, calls the process_batch
\* calls of the command per batch, todo the batches that were not processed
\* when the command began, entered how often each instruction was entered
\* while the batches were processed, merged what StatisticsCommand got
Job(sizes) ==
    [pc |-> "idle", batches |-> [b \in BatchIds |-> JobBatch(sizes[b])],
     commands |-> 0, k |-> 0, program |-> <<>>, dispatched |-> <<>>,
     pending |-> {}, failed |-> FALSE,
     calls |-> [b \in BatchIds |-> 0], todo |-> {}, ended |-> "",
     entered |-> [i \in DOMAIN instructions |-> 0], merged |-> <<>>]

JobInit ==
    /\ VmInit
    /\ instructions = Program("branch")
    /\ law = NoLaw
    /\ cc = NoCc /\ trace = NoTrace /\ vis = NoVis /\ dag = NoDag
    /\ batch = NoBatch
    /\ \E sizes \in [BatchIds -> BatchSizes] : job = Job(sizes)

\* a command begins
Begin(name) ==
    [job EXCEPT !.pc = name, !.commands = @ + 1, !.k = 1,
                !.calls = [b \in BatchIds |-> 0],
                !.todo = {b \in BatchIds : ~job.batches[b].time_completed},
                !.failed = FALSE, !.ended = "", !.merged = <<>>]

\* ProcessJobCommand.run: load_program, then process_job is entered
ProcessJobCommand ==
    /\ job.pc = "idle"
    /\ job.commands < MaxCommands
    /\ job' = [Begin("process_job") EXCEPT
                !.program = Program_statistics(instructions)]
    /\ UNCHANGED <<vmvars, law, cc, trace, vis, dag, batch>>

\* process_job: the batch of this turn of the loop is processed already
ProcessJobSkip ==
    /\ job.pc = "process_job"
    /\ job.k <= Len(job.batches)
    /\ is_processed(job.batches[job.k])
    /\ job' = [job EXCEPT !.k = @ + 1]
    /\ UNCHANGED <<vmvars, law, cc, trace, vis, dag, batch>>

\* process_job: the batch of this turn is not processed, process_batch is
\* called and goes through, with the Program of the command
ProcessJobBatch ==
    /\ job.pc = "process_job"
    /\ job.k <= Len(job.batches)
    /\ ~is_processed(job.batches[job.k])
    /\ \E executions \in [1..job.batches[job.k].size -> Executions(instructions, 0)] :
        LET stats == run_items(job.program, executions)
        IN  job' = [job EXCEPT
                !.program = stats,
                !.batches[job.k] = process_batch(@, stats),
                !.calls[job.k] = @ + 1,
                !.entered = [i \in DOMAIN @ |-> @[i] + Entries(executions, i)],
                !.k = @ + 1]
    /\ UNCHANGED <<vmvars, law, cc, trace, vis, dag, batch>>

\* process_job: process_batch is called and raises before its commit, which
\* ends process_job and the command
ProcessJobBatchRaises ==
    /\ job.pc = "process_job"
    /\ job.k <= Len(job.batches)
    /\ ~is_processed(job.batches[job.k])
    /\ job' = [job EXCEPT !.pc = "idle", !.ended = "raised",
                          !.calls[job.k] = @ + 1]
    /\ UNCHANGED <<vmvars, law, cc, trace, vis, dag, batch>>

\* process_job: the loop is over
ProcessJobReturn ==
    /\ job.pc = "process_job"
    /\ job.k > Len(job.batches)
    /\ job' = [job EXCEPT !.pc = "idle", !.ended = "returned"]
    /\ UNCHANGED <<vmvars, law, cc, trace, vis, dag, batch>>

\* ParallelProcessJobCommand.run: the ids are collected and given to the pool
ParallelProcessJobCommand ==
    /\ job.pc = "idle"
    /\ job.commands < MaxCommands
    /\ LET ids == batch_ids(job.batches, 1)
       IN  job' = [Begin("parallel") EXCEPT
                    !.dispatched = ids,
                    !.pending = {ids[n] : n \in DOMAIN ids}]
    /\ UNCHANGED <<vmvars, law, cc, trace, vis, dag, batch>>

\* process_batch_parallel in a worker: ProcessBatchCommand.process_batch
\* loads a Program of its own and process_batch goes through
ProcessBatchParallel ==
    /\ job.pc = "parallel"
    /\ \E b \in job.pending :
        \E executions \in [1..job.batches[b].size -> Executions(instructions, 0)] :
            LET stats == run_items(Program_statistics(instructions), executions)
            IN  job' = [job EXCEPT
                    !.batches[b] = process_batch(@, stats),
                    !.calls[b] = @ + 1,
                    !.entered = [i \in DOMAIN @ |-> @[i] + Entries(executions, i)],
                    !.pending = @ \ {b}]
    /\ UNCHANGED <<vmvars, law, cc, trace, vis, dag, batch>>

\* process_batch_parallel in a worker, process_batch raising before its commit
ProcessBatchParallelRaises ==
    /\ job.pc = "parallel"
    /\ \E b \in job.pending :
        job' = [job EXCEPT !.calls[b] = @ + 1, !.pending = @ \ {b},
                           !.failed = TRUE]
    /\ UNCHANGED <<vmvars, law, cc, trace, vis, dag, batch>>

\* pool.map is over: it returns, or raises what a worker raised
ParallelJoin ==
    /\ job.pc = "parallel"
    /\ job.pending = {}
    /\ job' = [job EXCEPT !.pc = "idle",
                          !.ended = IF job.failed THEN "raised" ELSE "returned"]
    /\ UNCHANGED <<vmvars, law, cc, trace, vis, dag, batch>>

\* StatisticsCommand.run: load_program, then the statistics of each batch of
\* the job are merged into the program
StatisticsCommand ==
    /\ job.pc = "idle"
    /\ job.commands > 0
    /\ job.merged = <<>>
    /\ job' = [job EXCEPT !.merged =
            merge_batches(job.batches, 1, Program_statistics(instructions))]
    /\ UNCHANGED <<vmvars, law, cc, trace, vis, dag, batch>>

JobNext ==
    \/ ProcessJobCommand
    \/ ProcessJobSkip
    \/ ProcessJobBatch
    \/ ProcessJobBatchRaises
    \/ ProcessJobReturn
    \/ ParallelProcessJobCommand
    \/ ProcessBatchParallel
    \/ ProcessBatchParallelRaises
    \/ ParallelJoin
    \/ StatisticsCommand

JobSpec == JobInit /\ [][JobNext]_vars

\* ------------------------------------------------------------------ claims

Counted == {i \in DOMAIN instructions : instructions[i].kind # "return"}

\* a call of run_instruction is the step from a running state; last' says
\* how it ended
RunInstructionReturned ==
    pc = "running" /\ last'.op = "run_instruction" /\ ~last'.raised
RunInstructionRaised ==
    pc = "running" /\ last'.op = "run_instruction" /\ last'.raised

\* every statistic but the one of program p, instruction i is left alone
OthersUnchanged(p, i) ==
    \A q \in Progs : \A k \in DOMAIN instructions :
        (q # p \/ k # i) => statistics'[q][k] = statistics[q][k]

\* C1. Exception accounting: in every state reached by run_instruction calls
\* (completed or raising) and equal-index merges, every statistic has
\* item_count >= success_count + failure_count.
C1_ExceptionAccounting ==
    \A p \in Progs : \A i \in DOMAIN instructions :
        statistics[p][i].item_count >=
            statistics[p][i].success_count + statistics[p][i].failure_count

\* a statistic that has seen a raising body, completed bodies and a merge
C1_Witness ==
    /\ last.op = "merge" /\ ~last.raised
    /\ had_exception(statistics["P"][last.i])
    /\ statistics["P"][last.i].success_count + statistics["P"][last.i].failure_count >= 1
    /\ statistics["W"][last.i].item_count >= 1

\* C2. When the body raises inside run_instruction, the instruction's
\* item_count is incremented by exactly 1, its success_count, failure_count and
\* run_time are unchanged (so had_exception is true), no next instruction is
\* produced (ip and flag stay) and the failure leaves run.
C2_BodyRaises ==
    [][RunInstructionRaised =>
        /\ statistics'[cur][ip] =
              [statistics[cur][ip] EXCEPT !.item_count = @ + 1]
        /\ had_exception(statistics'[cur][ip])
        /\ OthersUnchanged(cur, ip)
        /\ ip' = ip /\ flag' = flag /\ payload' = payload
        /\ pc' = "raised"]_vars

C2_Witness ==
    /\ pc = "raised"
    /\ last.op = "run_instruction" /\ last.raised
    /\ statistics[cur][ip].item_count = 2
    /\ statistics[cur][ip].success_count + statistics[cur][ip].failure_count = 1
    /\ had_exception(statistics[cur][ip])

\* C3. Each completed run_instruction call on instruction i increments
\* statistics[i].item_count by exactly 1 and exactly one of success_count
\* (the returned flag is truthy) and failure_count (otherwise) by 1, and
\* leaves the counters of every other instruction unchanged.
C3_CompletedCall ==
    [][RunInstructionReturned =>
        LET old == statistics[cur][ip]
            new == statistics'[cur][ip]
        IN  /\ new.item_count = old.item_count + 1
            /\ new.index = old.index
            /\ flag' => /\ new.success_count = old.success_count + 1
                        /\ new.failure_count = old.failure_count
            /\ ~flag' => /\ new.failure_count = old.failure_count + 1
                         /\ new.success_count = old.success_count
            /\ OthersUnchanged(cur, ip)]_vars

\* a program whose condition has been counted once on each side
C3_Witness ==
    /\ last.op = "run_instruction" /\ ~last.raised
    /\ last.index = 0
    /\ statistics[cur][0].item_count = 2
    /\ statistics[cur][0].success_count = 1
    /\ statistics[cur][0].failure_count = 1

\* C4. Each instruction's success_count equals the number of its completed
\* executions whose body returned truthy (branch) or a payload transformation
\* (rule, branch_rule with a non-sentinel result), and its failure_count the
\* number whose body returned falsy or the sentinel, whatever flag a rule was
\* entered with.
C4_CountsFollowBody ==
    \A p \in Progs : \A i \in Counted :
        /\ statistics[p][i].success_count = tally[p][i].ok
        /\ statistics[p][i].failure_count = tally[p][i].no

\* C5. Running a rule with any flag f sets data.payload to what the body
\* returned, goes to the single successor and returns f unchanged.
C5_RuleKeepsFlag ==
    [][(RunInstructionReturned /\ instructions[ip].kind = "rule") =>
        /\ payload' = last'.output
        /\ ip' = instructions[ip].next_instruction
        /\ flag' = flag]_vars

\* a rule entered and left with the flag False
C5_Witness ==
    /\ pc = "running"
    /\ last.op = "run_instruction" /\ ~last.raised
    /\ instructions[last.index].kind = "rule"
    /\ flag = FALSE
    /\ payload = last.output
    /\ ip = instructions[last.index].next_instruction

\* C6. No-progress identity: when a branch_rule body returns the sentinel,
\* data.payload stays bound to the same object, the false edge is taken, the
\* flag is False and the step is counted in failure_count.
C6_NoProgress ==
    [][(/\ RunInstructionReturned
        /\ instructions[ip].kind = "branch_rule"
        /\ last'.output = HAVE_NOT_DONE_IT) =>
        /\ payload' = payload
        /\ ip' = instructions[ip].instruction_on_no
        /\ flag' = FALSE
        /\ statistics'[cur][ip].failure_count =
              statistics[cur][ip].failure_count + 1
        /\ statistics'[cur][ip].success_count =
              statistics[cur][ip].success_count]_vars

\* the body appended to the list in place and returned the sentinel: the
\* payload is still that list
C6_Witness ==
    /\ pc = "running"
    /\ last.op = "run_instruction" /\ ~last.raised
    /\ instructions[last.index].kind = "branch_rule"
    /\ last.output = HAVE_NOT_DONE_IT
    /\ payload = PyList /\ list_len = 1
    /\ ip = instructions[last.index].instruction_on_no
    /\ statistics[cur][last.index].failure_count = 1

\* C7. A branch_rule decides by identity with the sentinel only: for every
\* other body result, falsy ones included, data.payload becomes that result,
\* the true edge is taken and the flag is True.
C7_IdentityOnly ==
    [][(/\ RunInstructionReturned
        /\ instructions[ip].kind = "branch_rule"
        /\ last'.output # HAVE_NOT_DONE_IT) =>
        /\ payload' = last'.output
        /\ ip' = instructions[ip].instruction_on_yes
        /\ flag' = TRUE]_vars

\* a falsy result taken as progress
C7_Witness ==
    /\ pc = "running"
    /\ last.op = "run_instruction" /\ ~last.raised
    /\ instructions[last.index].kind = "branch_rule"
    /\ last.output \in {PyNone, PyFalse, PyInt(0), PyList}
    /\ ~Truthy(last.output, list_len)
    /\ payload = last.output
    /\ flag = TRUE
    /\ ip = instructions[last.index].instruction_on_yes

\* a merge call is the step from an idle state that counts in merges
MergeCalled == pc = "idle" /\ merges' = merges + 1 /\ last'.op = "merge"

\* the counters of a statistic
Fields(stat) ==
    <<stat.item_count, stat.success_count, stat.failure_count, stat.run_time>>

\* C8. Merge laws: for statistics s, t, u with the same index, merging t into
\* s gives the same item_count, success_count, failure_count and run_time as
\* merging s into t, and merging (s merged with t) with u the same as merging
\* s with (t merged with u).
C8_MergeLaws ==
    /\ law.step = 2 => Fields(law.left[1]) = Fields(law.swap[2])
    /\ law.step = 5 => Fields(law.left[1]) = Fields(law.right[1])

\* three different statistics, each with items, merged in both orders
C8_Witness ==
    /\ law.step = 5
    /\ Cardinality({law.in[1], law.in[2], law.in[3]}) = 3
    /\ \A k \in 1..3 : law.in[k].item_count >= 1 /\ law.in[k].run_time >= 1
    /\ law.in[1].success_count # law.in[2].success_count
    /\ law.in[2].failure_count # law.in[3].failure_count
    /\ law.left[1].item_count =
          law.in[1].item_count + law.in[2].item_count + law.in[3].item_count
    /\ law.right[1].item_count = law.left[1].item_count

\* C9. s.merge(t) with equal indices sets each of s.item_count,
\* s.success_count, s.failure_count and s.run_time to the sum of the fields
\* of s and t before the call, leaves s.index and every field of t unchanged.
C9_MergeAdds ==
    [][(MergeCalled /\ ~last'.raised) =>
        LET s == statistics["P"][last'.i]
            t == statistics["W"][last'.j]
            s2 == statistics'["P"][last'.i]
        IN  /\ s.index = t.index
            /\ s2.item_count = s.item_count + t.item_count
            /\ s2.success_count = s.success_count + t.success_count
            /\ s2.failure_count = s.failure_count + t.failure_count
            /\ s2.run_time = s.run_time + t.run_time
            /\ s2.index = s.index
            /\ statistics'["W"] = statistics["W"]
            /\ OthersUnchanged("P", last'.i)]_vars

\* both statistics had counted successes, failures and time
C9_Witness ==
    /\ last.op = "merge" /\ ~last.raised
    /\ statistics["P"][last.i].item_count = 2
    /\ statistics["P"][last.i].success_count = 1
    /\ statistics["P"][last.i].failure_count = 1
    /\ statistics["P"][last.i].run_time = 2
    /\ statistics["W"][last.j].item_count = 1
    /\ statistics["W"][last.j].run_time = 1

\* C10. Merging two statistics with different index values fails, and the
\* failed merge changes no counter of either statistic.
C10_MergeMismatch ==
    [][MergeCalled =>
        /\ (statistics["P"][last'.i].index # statistics["W"][last'.j].index)
              => last'.raised
        /\ last'.raised => statistics' = statistics]_vars

\* a failed merge of two statistics that both had counted items
C10_Witness ==
    /\ last.op = "merge" /\ last.raised
    /\ statistics["P"][last.i].index # statistics["W"][last.j].index
    /\ statistics["P"][last.i].item_count >= 1
    /\ statistics["W"][last.j].item_count >= 1

\* C11. Statistics parallelism: after construction and after any runs and
\* merges, a Program has as many statistics as instructions and
\* statistics[i].index = i for every instruction i.
C11_StatisticsParallel ==
    \A p \in Progs :
        /\ DOMAIN statistics[p] = DOMAIN instructions
        /\ Cardinality(DOMAIN statistics[p]) = Cardinality(DOMAIN instructions)
        /\ \A i \in DOMAIN instructions : statistics[p][i].index = i

\* a Program that has run items and then merged the statistics of another
C11_Witness ==
    /\ last.op = "merge" /\ ~last.raised
    /\ last.i > 0
    /\ statistics["P"][last.i].item_count = 2
    /\ statistics["P"][0].item_count = 1
    /\ C11_StatisticsParallel

\* C15. The VM does not count a return instruction: after any runs (and
\* merges) item_count, success_count, failure_count and run_time of every
\* return instruction are 0, and a run that gets to a return instruction ends
\* there with its return_value if it has one, else with the current flag.
C15_ReturnNotCounted ==
    /\ [](\A p \in Progs : \A i \in DOMAIN instructions :
            instructions[i].kind = "return" =>
                statistics[p][i] = InstructionStatistic(i))
    /\ [][(pc = "running" /\ instructions[ip].kind = "return") =>
            /\ pc' = "idle"
            /\ statistics' = statistics
            /\ last'.op = "run" /\ ~last'.raised
            /\ last'.flag = (IF instructions[ip].return_value = "None"
                             THEN flag
                             ELSE instructions[ip].return_value = "True")]_vars

\* [IF (cond), RETURN_FALSE, ENDIF, RETURN_TRUE] ran an item twice: cond
\* failed, RETURN_TRUE answered True
C15_Witness ==
    /\ instructions = ProgramGuard
    /\ last.op = "run" /\ ~last.raised
    /\ last.index = 2 /\ last.flag
    /\ statistics["P"][0].failure_count = 2
    /\ statistics["P"][2].item_count = 0

\* the suffix of a listing line that carries the count n
Starred(n) == "   (*" \o ToString(n) \o ")"

\* C16. In to_text(with_statistics=True) the line of every rule and of every
\* return instruction carries the suffix "   (*N)" with N the item_count of
\* its statistic, and the True / False comment lines of every branch carry
\* its success_count / failure_count.
C16_ListingCounts ==
    (vis.step = 1 /\ vis.op = "to_text" /\ vis.with_statistics) =>
        \A i \in DOMAIN instructions :
            LET ins == instructions[i]
                stat == statistics[vis.p][i]
                listed == {vis.lines[k] : k \in DOMAIN vis.lines}
                code(name) == Format4d(i) \o " " \o name
            IN  CASE ins.kind = "rule" ->
                        code(instruction_name(ins)) \o Starred(stat.item_count)
                            \in listed
                  [] ins.kind = "return" ->
                        \E name \in {"RETURN", "RETURN True", "RETURN False"} :
                            code(name) \o Starred(stat.item_count) \in listed
                  [] OTHER ->
                        /\ "       # True  -> "
                                \o ToString(ins.instruction_on_yes)
                                \o Starred(stat.success_count) \in listed
                        /\ "       # False -> "
                                \o ToString(ins.instruction_on_no)
                                \o Starred(stat.failure_count) \in listed

\* C17. to_text(with_statistics=False) and to_dot(with_statistics=False)
\* depend on the shape of the Program only: they are the same text for the
\* Programs of one shape whatever their statistics, and producing them
\* changes no statistic.
C17_VisitorDeterminism ==
    [][(vis'.step = 1 /\ ~vis'.with_statistics) =>
        /\ statistics' = statistics
        /\ \A q \in Progs :
            vis'.text =
                IF vis'.op = "to_text"
                THEN Program_to_text(instructions, statistics[q], FALSE)
                ELSE Program_to_dot(instructions, statistics[q], FALSE)]_vars

\* the listing without statistics of a Program whose branch has seen two
\* items and whose rules one each, its twin having seen none
C17_Witness ==
    /\ vis.step = 1 /\ vis.op = "to_text" /\ ~vis.with_statistics
    /\ vis.p = "P"
    /\ instructions = Program("branch")
    /\ statistics["P"][0].item_count = 2
    /\ statistics["P"][1].item_count = 1
    /\ statistics["P"][2].item_count = 1
    /\ statistics["W"][0].item_count = 0
    /\ vis.text = "   0 cond\n       # True  -> 1\n       # False -> 2\n"
                    \o "   1 a\n   2 b\n   3 RETURN\nEND OF MAIN PROGRAM"

\* C12. Edge validity: every non-return instruction of a successfully
\* compiled Program has its next_on_true and its next_on_false resolved to
\* valid indices of the Program.
C12_EdgeValidity ==
    cc.status = "ok" =>
        /\ DOMAIN instructions = 0..(Len(cc.instructions) - 1)
        /\ \A p \in DOMAIN cc.instructions :
            cc.instructions[p].kind # "return" =>
                /\ cc.instructions[p].next_on_true \in DOMAIN instructions
                /\ cc.instructions[p].next_on_false \in DOMAIN instructions
        /\ \A i \in DOMAIN instructions :
            instructions[i].kind # "return" =>
                /\ next_instruction(instructions[i], TRUE) \in DOMAIN instructions
                /\ next_instruction(instructions[i], FALSE) \in DOMAIN instructions

\* [IF (cond), a, ELSE, ENDIF, RETURN] compiled: the branch enters the arm
\* or skips to the RETURN, the rule falls through to the RETURN
C12_Witness ==
    /\ cc.status = "ok"
    /\ Len(cc.desc) = 5
    /\ cc.desc[1].op = "IF" /\ cc.desc[2].op = "rule" /\ cc.desc[3].op = "ELSE"
    /\ cc.desc[4].op = "ENDIF" /\ cc.desc[5].op = "RETURN"
    /\ instructions[0].instruction_on_yes = 1
    /\ instructions[0].instruction_on_no = 2
    /\ instructions[1].next_instruction = 2
    /\ instructions[2].kind = "return"

\* the primitives at positions 1..n of description D with an op in ops
Count(D, n, ops) == Cardinality({m \in 1..n : D[m].op \in ops})
IfDepth(D, n) == Count(D, n, {"IF", "IF_NOT"}) - Count(D, n, {"ENDIF"})
DefDepth(D, n) == Count(D, n, {"DEF"}) - Count(D, n, {"END_DEF"})

\* every IF / IF_NOT has its ENDIF
IfsMatched(D) == IfDepth(D, Len(D)) = 0

\* every CALL names a label some DEF defines
CallsDefined(D) ==
    \A m \in DOMAIN D : D[m].op = "CALL" =>
        \E n \in DOMAIN D : D[n].op = "DEF" /\ D[n].label = D[m].label

\* A well-formed description: ELIF / ELSE / ENDIF only inside an IF, each
\* label defined once, DEF ... END_DEF closed and not nested, and the last
\* primitive a RETURN of some kind, an END_DEF or a CALL.
WellFormed(D) ==
    /\ D # <<>>
    /\ D[Len(D)].op \in {"RETURN", "RETURN_TRUE", "RETURN_FALSE", "END_DEF",
                          "CALL"}
    /\ \A n \in DOMAIN D :
        /\ D[n].op \in {"ELIF", "ELIF_NOT", "ELSE", "ENDIF"} =>
                IfDepth(D, n - 1) > 0
        /\ D[n].op = "DEF" => DefDepth(D, n - 1) = 0
        /\ D[n].op = "END_DEF" => DefDepth(D, n - 1) = 1
        /\ D[n].op = "DEF" =>
                \A m \in 1..(n - 1) :
                    D[m].op = "DEF" => D[m].label # D[n].label
    /\ DefDepth(D, Len(D)) = 0

\* C13. Structured control flow roundtrip: compile(D) of a well-formed
\* description D succeeds if and only if every IF / IF_NOT of D has a
\* matching ENDIF and every CALL target of D is defined; otherwise it ends
\* with a compile error.
C13_Roundtrip ==
    (cc.status \in {"ok", "error"} /\ WellFormed(cc.desc)) =>
        /\ cc.status = "ok" <=> (IfsMatched(cc.desc) /\ CallsDefined(cc.desc))
        /\ cc = compile(cc.desc)

\* [IF (cond), a, ELSE, RETURN]: well-formed, its IF never closed, refused
C13_Witness ==
    /\ cc.status = "error"
    /\ cc.error = "open IF frame"
    /\ WellFormed(cc.desc)
    /\ Len(cc.desc) = 4
    /\ cc.desc[1].op = "IF" /\ cc.desc[3].op = "ELSE"
    /\ ~IfsMatched(cc.desc)
    /\ CallsDefined(cc.desc)

\* C14. A run of the compiled [IF (cond), a, ELSE, b, ENDIF, RETURN] executes
\* exactly one of the two arms, a when the body of cond returned true and b
\* when it returned false, and then gets to the instruction after ENDIF, the
\* RETURN; with cond x > 0, a x * 2 and b -x, payload 5 becomes 10 and
\* payload -3 becomes 3.
C14_OneArm ==
    /\ compile(BranchDescription).status = "ok"
    /\ trace.step = 2 =>
        /\ trace.visited =
                IF trace.input > 0 THEN <<0, 1, 3>> ELSE <<0, 2, 3>>
        /\ instructions[3].kind = "return"
        /\ payload = IF trace.input > 0 THEN PyInt(2 * trace.input)
                                        ELSE PyInt(-trace.input)
        /\ trace.input = 5 => payload = PyInt(10)
        /\ trace.input = -3 => payload = PyInt(3)
        /\ last.payload = payload

\* the second item, payload -3, has run: b made it 3; the first took arm a
C14_Witness ==
    /\ trace.step = 2
    /\ trace.input = -3
    /\ trace.visited = <<0, 2, 3>>
    /\ payload = PyInt(3)
    /\ statistics[cur][1].item_count = 1
    /\ statistics[cur][2].item_count = 1

\* the node at position k of the definition order of the DAG returned
Returned(k) == dag.result.name2node[dag.defined[k]]

\* C18. In a DAG built by DagConfigReader, the S and the F edge of a node
\* that have no explicit output definition each lead to the node defined
\* next, independently of one another; for the node defined last, every edge
\* without an explicit output definition is STOP (None).
C18_ImplicitEdges ==
    dag.status = "returned" =>
        \A k \in DOMAIN dag.defined :
            LET next == IF k < Len(dag.defined) THEN dag.defined[k + 1]
                                                ELSE None
            IN  /\ "S" \notin Returned(k).explicit => Returned(k).success = next
                /\ "F" \notin Returned(k).explicit => Returned(k).fail = next
                /\ (k = Len(dag.defined) /\ "H" \notin Returned(k).explicit)
                        => Returned(k).human = None

\* C19. The DAG config is monotone: a node definition with an output edge to
\* a node that is already defined (the node being defined included) is
\* rejected with an error and its from_string returns no DAG; in every DAG
\* returned each S, F and H edge leads to STOP or to a node defined strictly
\* later than its source, so there is no cycle.
C19_Monotone ==
    /\ [](dag.status = "returned" =>
            /\ dag.parseresults = <<>>
            /\ \A k \in DOMAIN dag.defined :
                \A target \in {Returned(k).success, Returned(k).fail,
                                Returned(k).human} :
                    \/ target = None
                    \/ \E m \in DOMAIN dag.defined :
                            m > k /\ dag.defined[m] = target)
    /\ [][(dag.status = "parsing" /\ dag'.nodedefs = dag.nodedefs + 1
            /\ dag'.last.fresh /\ dag'.last.backward) =>
                /\ dag'.last.exc = "already defined, config is not monotone"
                /\ Len(dag'.parseresults) = Len(dag.parseresults) + 1]_vars
    /\ [][(dag.status = "parsing" /\ dag.parseresults # <<>>) =>
                dag'.status \in {"parsing", "raised"}]_vars

\* a: S->b H->b, then b, read by the second from_string of a reader
C19_Witness ==
    /\ dag.status = "returned"
    /\ dag.calls = 2
    /\ dag.defined = <<"a", "b">>
    /\ Returned(1).explicit = {"S", "H"}
    /\ Returned(1).success = "b" /\ Returned(1).human = "b"
    /\ Returned(1).fail = "b"
    /\ Returned(2).success = None /\ Returned(2).fail = None

\* the ids of a list of data items, in order
Ids(data_items) == [k \in DOMAIN data_items |-> data_items[k].id]

\* C20. A data item whose run raises does not stop the batch:
\* process_data_item catches the failure and returns that same data item,
\* process_batch goes on with the later items, and save_data_items is given
\* a list with exactly one entry per loaded item, in the loaded order.
C20_RaisingItem ==
    /\ [][(batch.pc = "items" /\ Len(batch.processed) < Len(batch.loaded)) =>
            /\ batch'.pc = "items"
            /\ Len(batch'.processed) = Len(batch.processed) + 1
            /\ batch'.processed[Len(batch'.processed)].id =
                    batch.loaded[Len(batch'.processed)].id
            /\ SubSeq(batch'.processed, 1, Len(batch.processed)) =
                    batch.processed]_vars
    /\ [][batch'.save_calls # batch.save_calls =>
            /\ Len(batch.processed) = Len(batch.loaded)
            /\ Ids(batch.processed) = Ids(batch.loaded)
            /\ batch'.pc = "saved" => batch'.saved = batch.processed]_vars
    /\ [](batch.pc = "failed" => (batch.loaded = <<>> \/ batch.save_calls = 1))

\* items 2, 3, 1 were loaded; the runs of the first and of the last raised;
\* save_data_items got the three of them
C20_Witness ==
    /\ batch.pc = "saved"
    /\ Ids(batch.loaded) = <<2, 3, 1>>
    /\ batch.raised = <<TRUE, FALSE, TRUE>>
    /\ Ids(batch.saved) = <<2, 3, 1>>
    /\ batch.saved[1].payload = 1

\* C24: in process_batch time_completed is set only once every loaded item
\* has been processed and save_data_items has returned for the whole
\* processed list; the statistics are saved before the commit, which happens
\* once and ends process_batch; when load_data_items, the processing or
\* save_data_items fails, time_completed is not set and nothing is
\* committed, and no failure at all is followed by a commit.
C24_CompletedLast ==
    /\ [](batch.time_completed =>
            /\ Len(batch.processed) = Len(batch.loaded)
            /\ batch.save_calls = 1
            /\ batch.saved = batch.processed)
    /\ [][(batch'.time_completed /\ ~batch.time_completed) =>
            batch.pc = "saved"]_vars
    /\ [][(batch'.committed /\ ~batch.committed) =>
            /\ batch.statistics_saved
            /\ batch.time_completed
            /\ batch'.pc = "done"]_vars
    /\ [][batch.committed => batch' = batch]_vars
    /\ [](batch.failed_at \in {"load", "process", "save"} =>
            /\ ~batch.time_completed
            /\ ~batch.statistics_saved
            /\ ~batch.committed)
    /\ [](batch.pc = "failed" => ~batch.committed)

\* three items were loaded, the run of one raised, all three were saved, then
\* the batch was completed, its statistics saved and the session committed
C24_Witness ==
    /\ batch.pc = "done"
    /\ Len(batch.loaded) = 3
    /\ batch.raised = <<FALSE, TRUE, FALSE>>
    /\ batch.saved = batch.processed
    /\ batch.time_completed
    /\ batch.statistics_saved
    /\ batch.committed

\* C25: had_exception is exact and stable. In every state reached by runs and
\* equal-index merges, item_count - (success_count + failure_count) of a
\* statistic is the number of executions of its instruction whose body
\* raised, those of the merged statistics included; so had_exception holds
\* exactly when there was such an execution, and no run or merge makes it
\* false again.
C25_HadException ==
    /\ [](\A p \in Progs : \A i \in DOMAIN instructions :
            /\ statistics[p][i].item_count -
                    (statistics[p][i].success_count +
                     statistics[p][i].failure_count) = tally[p][i].raised
            /\ had_exception(statistics[p][i]) <=> tally[p][i].raised >= 1)
    /\ [][\A p \in Progs : \A i \in DOMAIN instructions :
            had_exception(statistics[p][i]) =>
                had_exception(statistics'[p][i])]_vars

\* a body of P raised, the same body of W raised, W was merged into P: the
\* difference is 2, one execution of each source
C25_Witness ==
    /\ last.op = "merge" /\ ~last.raised
    /\ tally["P"][last.i].raised = 2
    /\ tally["W"][last.i].raised = 1
    /\ statistics["P"][last.i].item_count = 2
    /\ had_exception(statistics["P"][last.i])

\* C22: from_string returns a DAG only when every node named as an edge
\* target is defined by the end of the config, else it raises 'Undefined
\* nodes': in every DAG returned each edge target other than STOP is a key
\* of name2node, and start_node is the first node the config defines.
C22_DefinedTargets ==
    /\ dag.status = "returned" =>
            LET n2n == dag.result.name2node
            IN  /\ \A name \in DOMAIN n2n :
                        \A target \in {n2n[name].success, n2n[name].fail,
                                        n2n[name].human} :
                            target = None \/ target \in DOMAIN n2n
                /\ dag.result.start_node.name = dag.first
    /\ (dag.status = "raised" /\ dag.error = "Undefined nodes") =>
            \E k \in DOMAIN dag.r.nodes :
                \E target \in {dag.r.nodes[k].success, dag.r.nodes[k].fail,
                                dag.r.nodes[k].human} :
                    /\ target # None
                    /\ \A m \in DOMAIN dag.r.nodes : dag.r.nodes[m].name # target

\* C26: a DagConfigReader can be reused, the outcome of from_string depends
\* on its string only: nodes, futures and nodenames are empty whenever a
\* from_string call begins, whether the calls before it returned or raised.
C26_ReaderReuse == dag.status = "parsing" => dag.r0 = reset

\* C21: processing a job is resumable. process_job calls process_batch only
\* for a batch that is not processed, once for each batch that was not
\* processed when it began and never for one that was; the parallel command
\* dispatches the ids of the batches not processed, each id once, and its
\* workers are called for those only; when process_job (or the pool) returns
\* without an exception every batch of the job is processed.
C21_Resumable ==
    /\ [][\A b \in BatchIds :
            (job.pc = "process_job" /\ job'.calls[b] = job.calls[b] + 1) =>
                /\ ~job.batches[b].time_completed
                /\ b \in job.todo
                /\ job.calls[b] = 0]_vars
    /\ [](job.pc = "process_job" =>
            \A b \in BatchIds :
                job.calls[b] = IF b < job.k /\ b \in job.todo THEN 1 ELSE 0)
    /\ [](job.pc = "parallel" =>
            /\ {job.dispatched[n] : n \in DOMAIN job.dispatched} = job.todo
            /\ \A n, m \in DOMAIN job.dispatched :
                    n < m => job.dispatched[n] < job.dispatched[m]
            /\ job.pending \subseteq job.todo
            /\ \A b \in BatchIds :
                    job.calls[b] = IF b \in job.todo \ job.pending THEN 1 ELSE 0)
    /\ [](job.ended = "returned" =>
            \A b \in BatchIds :
                /\ job.batches[b].time_completed
                /\ job.calls[b] = IF b \in job.todo THEN 1 ELSE 0)

\* a first process_job was left by an exception in the second batch; the
\* second process_job skipped the first batch, processed the second, and
\* returned
C21_Witness ==
    /\ job.pc = "idle"
    /\ job.commands = 2
    /\ job.ended = "returned"
    /\ job.k = Len(job.batches) + 1
    /\ job.todo = {2}
    /\ job.calls = [b \in BatchIds |-> IF b = 2 THEN 1 ELSE 0]
    /\ \A b \in BatchIds : job.batches[b].time_completed

\* C23: once the job is processed, the statistics of its batches merged into
\* a loaded Program give, for each instruction, an item_count that is the
\* number of times the instruction was entered over the items of all the
\* batches, whether process_job processed the batches with one Program or
\* the workers of the parallel command with one Program per batch.
C23_MergedCounts ==
    (/\ job.pc = "idle"
     /\ job.merged # <<>>
     /\ \A b \in BatchIds : job.batches[b].time_completed) =>
        \A i \in DOMAIN instructions :
            job.merged[i].item_count = job.entered[i]

====
